---- MODULE Spec2Model ----
(***************************************************************************)
(* src/train.py: the EarlyStopping policy object and the Trainer.run       *)
(* repeated-restart loop.                                                  *)
(*                                                                         *)
(* The model and the data are external objects.  A parameter vector of the *)
(* model is abstracted to the training step that produced it (restart      *)
(* `it`, epoch `ep`; ep = 0 is the vector reset_parameters leaves) and the *)
(* metrics evaluate() computes from it: evaluate() is deterministic in the *)
(* parameters (model.eval(), torch.no_grad()), so the metrics are fields   *)
(* of the vector.  Accuracies are counted in correct predictions, losses   *)
(* in whole units; float('inf') is the value Inf above every loss.         *)
(* `verbose` only prints and is left out.                                  *)
(***************************************************************************)
EXTENDS Integers, Sequences, FiniteSets, TLC

\* ---- bounds ----
MaxEpochs == 3
MaxPatience == 2

\* the inputs: restart counts, and the metric values a parameter vector can score
Niters == {0, 1, 2}
ValLosses == {0, 1}
ValAccs == {0, 1}
TestAccs == {0, 1}

\* float('inf'): above every finite loss
Inf == 1 + CHOOSE v \in ValLosses : \A w \in ValLosses : w <= v

\* Python's None
None == [kind |-> "None"]

\* the values a parameter vector produced in restart it, epoch ep can have
Params(it, ep) ==
    [it : {it}, ep : {ep}, vl : ValLosses, va : ValAccs, ta : TestAccs]

\* the arguments Trainer.__init__ can be called with
Args ==
    [epochs : 0..MaxEpochs, niter : Niters, early_stopping : BOOLEAN,
     patience : 0..MaxPatience, use_loss : BOOLEAN, use_acc : BOOLEAN,
     save_model : BOOLEAN]

VARIABLES
    args,           \* the arguments of Trainer.__init__
    pc,             \* position in Trainer.__init__ / Trainer.run
    model,          \* the live parameters of self.model
    stop_checker,   \* self.stop_checker (None: the attribute is not set)
    restart,        \* number of restarts begun (the for _ in range(niter) loop)
    epoch,          \* the epoch loop variable (0 before the first epoch)
    evals,          \* the local evals of run
    val_acc_list,
    test_acc_list,
    result,         \* what run returned (None before)
    hist,           \* history: the evals passed to check since the last Trainer.reset
    lastCheck,      \* history: outcome of the latest check call of this restart
    finals,         \* history: the parameters each final evaluate ran on
    trains,         \* history: Trainer.train calls of this restart
    evaluates,      \* history: Trainer.evaluate calls of this restart
    ran             \* history: <<train calls, evaluate calls>> of each finished restart

vars == <<args, pc, model, stop_checker, restart, epoch, evals, val_acc_list,
          test_acc_list, result, hist, lastCheck, finals, trains, evaluates, ran>>

\* ---- helpers ----
\* min mistaken for max
Min2_AsMax(a, b) == IF b > a THEN b ELSE a

Min2(a, b) == IF b < a THEN b ELSE a
Max2(a, b) == IF b > a THEN b ELSE a

RECURSIVE Sum(_)
Sum(s) == IF s = <<>> THEN 0 ELSE Head(s) + Sum(Tail(s))

RECURSIVE SumSq(_)
SumSq(s) == IF s = <<>> THEN 0 ELSE Head(s) * Head(s) + SumSq(Tail(s))

\* numpy.mean as the fraction <<numerator, denominator>> (<<0, 0>>: nan of an empty list)
mean(s) == <<Sum(s), Len(s)>>

\* numpy.std (population): the square root of the fraction <<numerator, denominator>>
std(s) == <<Len(s) * SumSq(s) - Sum(s) * Sum(s), Len(s) * Len(s)>>

\* model.state_dict(): references to the live tensors, not a copy
state_dict_of(m) == [kind |-> "view"]

\* line 36 without deepcopy: the state dict keeps referring to the live tensors
deepcopy_Alias(sd, m) == sd

\* copy.deepcopy of a state dict: a snapshot of the tensors it refers to
deepcopy(sd, m) ==
    IF sd.kind = "view" THEN [kind |-> "copy", params |-> m] ELSE sd

\* the tensors a state dict holds at the moment it is read
Deref(sd, m) == IF sd.kind = "view" THEN m ELSE sd.params

\* ---- EarlyStopping ----
EarlyStopping(patience, use_loss, use_acc, save_model) ==
    [patience |-> patience, use_loss |-> use_loss, use_acc |-> use_acc,
     save_model |-> save_model, counter |-> 0, best_val_loss |-> Inf,
     best_val_acc |-> 0, state_dict |-> None]

EarlyStoppingReset(self) ==
    [self EXCEPT !.counter = 0, !.best_val_loss = Inf, !.best_val_acc = 0,
                 !.state_dict = None]

\* line 33 with strict comparisons
DualEither_Strict(self, ev) ==
    ev.val_loss < self.best_val_loss \/ ev.val_acc > self.best_val_acc

\* line 33 with `and` for `or`
DualEither_And(self, ev) ==
    ev.val_loss <= self.best_val_loss /\ ev.val_acc >= self.best_val_acc

\* line 33: the dual-mode test that resets the counter
DualEither(self, ev) ==
    ev.val_loss <= self.best_val_loss \/ ev.val_acc >= self.best_val_acc

\* line 34: the dual-mode test that keeps a checkpoint
DualBoth(self, ev) ==
    ev.val_loss <= self.best_val_loss /\ ev.val_acc >= self.best_val_acc

\* line 43 also looking at the accuracy
LossImproved_OrAcc(self, ev) ==
    ev.val_loss < self.best_val_loss \/ ev.val_acc > self.best_val_acc

\* line 43 with a non-strict comparison
LossImproved_NonStrict(self, ev) == ev.val_loss <= self.best_val_loss

\* line 43: the loss-only test
LossImproved(self, ev) == ev.val_loss < self.best_val_loss

\* line 51: the acc-only test
AccImproved(self, ev) == ev.val_acc > self.best_val_acc

\* CheckUpdate without the save_model test of line 35
CheckUpdate_AlwaysSave(self, ev, m) ==
    IF self.use_loss /\ self.use_acc
    THEN IF DualEither(self, ev)
         THEN [self EXCEPT
                 !.state_dict =
                     IF DualBoth(self, ev)
                     THEN deepcopy(state_dict_of(m), m) ELSE @,
                 !.best_val_loss = Min2(@, ev.val_loss),
                 !.best_val_acc = Max2(@, ev.val_acc),
                 !.counter = 0]
         ELSE [self EXCEPT !.counter = @ + 1]
    ELSE IF self.use_loss
    THEN IF LossImproved(self, ev)
         THEN [self EXCEPT
                 !.best_val_loss = ev.val_loss,
                 !.counter = 0,
                 !.state_dict =
                     IF self.save_model THEN deepcopy(state_dict_of(m), m) ELSE @]
         ELSE [self EXCEPT !.counter = @ + 1]
    ELSE IF self.use_acc
    THEN IF AccImproved(self, ev)
         THEN [self EXCEPT
                 !.best_val_acc = ev.val_acc,
                 !.counter = 0,
                 !.state_dict =
                     IF self.save_model THEN deepcopy(state_dict_of(m), m) ELSE @]
         ELSE [self EXCEPT !.counter = @ + 1]
    ELSE self

\* lines 31-57 of check: the bookkeeping before the stop decision
CheckUpdate(self, ev, m) ==
    IF self.use_loss /\ self.use_acc
    THEN IF DualEither(self, ev)
         THEN [self EXCEPT
                 !.state_dict =
                     IF DualBoth(self, ev) /\ self.save_model
                     THEN deepcopy(state_dict_of(m), m) ELSE @,
                 !.best_val_loss = Min2(@, ev.val_loss),
                 !.best_val_acc = Max2(@, ev.val_acc),
                 !.counter = 0]
         ELSE [self EXCEPT !.counter = @ + 1]
    ELSE IF self.use_loss
    THEN IF LossImproved(self, ev)
         THEN [self EXCEPT
                 !.best_val_loss = ev.val_loss,
                 !.counter = 0,
                 !.state_dict =
                     IF self.save_model THEN deepcopy(state_dict_of(m), m) ELSE @]
         ELSE [self EXCEPT !.counter = @ + 1]
    ELSE IF self.use_acc
    THEN IF AccImproved(self, ev)
         THEN [self EXCEPT
                 !.best_val_acc = ev.val_acc,
                 !.counter = 0,
                 !.state_dict =
                     IF self.save_model THEN deepcopy(state_dict_of(m), m) ELSE @]
         ELSE [self EXCEPT !.counter = @ + 1]
    ELSE self

\* check with > for >= in line 59
check_Gt(self, ev, m) ==
    LET s == CheckUpdate(self, ev, m) IN
    IF s.counter > s.patience
    THEN IF s.save_model
         THEN IF s.state_dict = None
              THEN [self |-> s, model |-> m, outcome |-> "raise"]
              ELSE [self |-> s, model |-> Deref(s.state_dict, m), outcome |-> "True"]
         ELSE [self |-> s, model |-> m, outcome |-> "True"]
    ELSE [self |-> s, model |-> m, outcome |-> "False"]

\* check without the load_state_dict of line 64
check_NoLoad(self, ev, m) ==
    LET s == CheckUpdate(self, ev, m) IN
    [self |-> s, model |-> m,
     outcome |-> IF s.counter >= s.patience THEN "True" ELSE "False"]

\* EarlyStopping.check: the policy after the call, the model after the call, and
\* the outcome: "True" / "False" returned, or "raise" when load_state_dict is
\* handed None (torch.nn.Module.load_state_dict rejects a non-mapping)
check(self, ev, m) ==
    LET s == CheckUpdate(self, ev, m) IN
    IF s.counter >= s.patience
    THEN IF s.save_model
         THEN IF s.state_dict = None
              THEN [self |-> s, model |-> m, outcome |-> "raise"]
              ELSE [self |-> s, model |-> Deref(s.state_dict, m), outcome |-> "True"]
         ELSE [self |-> s, model |-> m, outcome |-> "True"]
    ELSE [self |-> s, model |-> m, outcome |-> "False"]

\* ---- Trainer ----
\* Trainer.evaluate on parameters m (the keys run uses)
evaluate(m) == [val_loss |-> m.vl, val_acc |-> m.va, test_acc |-> m.ta]

\* Trainer.reset without lines 122-123
TrainerReset_NoChecker(a, sc) == sc

\* Trainer.reset: the stop checker after it (the fresh parameters are drawn by the caller)
TrainerReset(a, sc) == IF a.early_stopping THEN EarlyStoppingReset(sc) ELSE sc

Init ==
    /\ args \in Args
    /\ pc = "new"
    /\ model \in Params(0, 0)
    /\ stop_checker = None
    /\ restart = 0
    /\ epoch = 0
    /\ evals = None
    /\ val_acc_list = <<>>
    /\ test_acc_list = <<>>
    /\ result = None
    /\ hist = <<>>
    /\ lastCheck = "none"
    /\ finals = <<>>
    /\ trains = 0
    /\ evaluates = 0
    /\ ran = <<>>

\* Trainer.__init__ with the assert of line 13 left out
Construct_NoAssert ==
    /\ pc = "new"
    /\ IF args.early_stopping
       THEN stop_checker' = EarlyStopping(args.patience, args.use_loss,
                                          args.use_acc, args.save_model)
       ELSE UNCHANGED stop_checker
    /\ pc' = "run"
    /\ UNCHANGED <<args, model, restart, epoch, evals, val_acc_list, test_acc_list,
                   result, hist, lastCheck, finals,
                   trains, evaluates, ran>>

\* Trainer.__init__ (with EarlyStopping.__init__ and its assert)
Construct ==
    /\ pc = "new"
    /\ IF args.early_stopping
       THEN IF args.use_loss \/ args.use_acc
            THEN /\ stop_checker' = EarlyStopping(args.patience, args.use_loss,
                                                  args.use_acc, args.save_model)
                 /\ pc' = "run"
            ELSE /\ pc' = "AssertionError"
                 /\ UNCHANGED stop_checker
       ELSE /\ pc' = "run"
            /\ UNCHANGED stop_checker
    /\ UNCHANGED <<args, model, restart, epoch, evals, val_acc_list, test_acc_list,
                   result, hist, lastCheck, finals,
                   trains, evaluates, ran>>

\* run, line 126-127: the two lists are created
RunBegin ==
    /\ pc = "run"
    /\ val_acc_list' = <<>>
    /\ test_acc_list' = <<>>
    /\ pc' = "restart"
    /\ UNCHANGED <<args, model, stop_checker, restart, epoch, evals, result, hist,
                   lastCheck, finals,
                   trains, evaluates, ran>>

\* run, lines 129-130: the next restart begins with Trainer.reset
Restart ==
    /\ pc = "restart"
    /\ restart < args.niter
    /\ restart' = restart + 1
    /\ model' \in Params(restart + 1, 0)
    /\ stop_checker' = TrainerReset(args, stop_checker)
    /\ epoch' = 0
    /\ hist' = <<>>
    /\ lastCheck' = "none"
    /\ pc' = "epoch"
    /\ UNCHANGED <<args, evals, val_acc_list, test_acc_list, result, finals>>
    /\ trains' = 0
    /\ evaluates' = 0
    /\ UNCHANGED ran

\* Train with range(1, epochs + 2) in line 134
Train_OneMore ==
    /\ pc = "epoch"
    /\ epoch <= args.epochs
    /\ epoch' = epoch + 1
    /\ model' \in Params(restart, epoch + 1)
    /\ pc' = "evaluate"
    /\ UNCHANGED <<args, stop_checker, restart, evals, val_acc_list, test_acc_list,
                   result, hist, lastCheck, finals>>
    /\ trains' = trains + 1
    /\ UNCHANGED <<evaluates, ran>>

\* run, lines 134-135: the next epoch begins with Trainer.train
Train ==
    /\ pc = "epoch"
    /\ epoch < args.epochs
    /\ epoch' = epoch + 1
    /\ model' \in Params(restart, epoch + 1)
    /\ pc' = "evaluate"
    /\ UNCHANGED <<args, stop_checker, restart, evals, val_acc_list, test_acc_list,
                   result, hist, lastCheck, finals>>
    /\ trains' = trains + 1
    /\ UNCHANGED <<evaluates, ran>>

\* run, line 136
Evaluate ==
    /\ pc = "evaluate"
    /\ evals' = evaluate(model)
    /\ pc' = "check"
    /\ UNCHANGED <<args, model, stop_checker, restart, epoch, val_acc_list,
                   test_acc_list, result, hist, lastCheck, finals>>
    /\ evaluates' = evaluates + 1
    /\ UNCHANGED <<trains, ran>>

\* run, lines 145-147 with early stopping
Check ==
    /\ pc = "check"
    /\ args.early_stopping
    /\ LET r == check(stop_checker, evals, model) IN
         /\ stop_checker' = r.self
         /\ model' = r.model
         /\ lastCheck' = r.outcome
         /\ pc' = CASE r.outcome = "True" -> "final"
                    [] r.outcome = "False" -> "epoch"
                    [] OTHER -> "LoadError"
    /\ hist' = Append(hist, [val_loss |-> evals.val_loss, val_acc |-> evals.val_acc])
    /\ UNCHANGED <<args, restart, epoch, evals, val_acc_list, test_acc_list, result,
                   finals,
                   trains, evaluates, ran>>

\* NoCheck with the break of line 147 outside the two ifs
NoCheck_Break ==
    /\ pc = "check"
    /\ ~args.early_stopping
    /\ pc' = "final"
    /\ UNCHANGED <<args, model, stop_checker, restart, epoch, evals, val_acc_list,
                   test_acc_list, result, hist, lastCheck, finals,
                   trains, evaluates, ran>>

\* run, line 145 without early stopping
NoCheck ==
    /\ pc = "check"
    /\ ~args.early_stopping
    /\ pc' = "epoch"
    /\ UNCHANGED <<args, model, stop_checker, restart, epoch, evals, val_acc_list,
                   test_acc_list, result, hist, lastCheck, finals,
                   trains, evaluates, ran>>

\* run, line 134: range(1, epochs + 1) is exhausted
EpochsExhausted ==
    /\ pc = "epoch"
    /\ epoch >= args.epochs
    /\ pc' = "final"
    /\ UNCHANGED <<args, model, stop_checker, restart, epoch, evals, val_acc_list,
                   test_acc_list, result, hist, lastCheck, finals,
                   trains, evaluates, ran>>

\* FinalEvaluate with the wrong key appended to val_acc_list
FinalEvaluate_WrongKey ==
    /\ pc = "final"
    /\ evals' = evaluate(model)
    /\ val_acc_list' = Append(val_acc_list, evaluate(model).test_acc)
    /\ test_acc_list' = Append(test_acc_list, evaluate(model).test_acc)
    /\ finals' = Append(finals, model)
    /\ pc' = "restart"
    /\ UNCHANGED <<args, model, stop_checker, restart, epoch, result, hist, lastCheck>>
    /\ evaluates' = evaluates + 1
    /\ ran' = Append(ran, <<trains, evaluates + 1>>)
    /\ UNCHANGED trains

\* run, lines 152-158: the final evaluate of the restart
FinalEvaluate ==
    /\ pc = "final"
    /\ evals' = evaluate(model)
    /\ val_acc_list' = Append(val_acc_list, evaluate(model).val_acc)
    /\ test_acc_list' = Append(test_acc_list, evaluate(model).test_acc)
    /\ finals' = Append(finals, model)
    /\ pc' = "restart"
    /\ UNCHANGED <<args, model, stop_checker, restart, epoch, result, hist, lastCheck>>
    /\ evaluates' = evaluates + 1
    /\ ran' = Append(ran, <<trains, evaluates + 1>>)
    /\ UNCHANGED trains

\* run, lines 160-166: range(niter) is exhausted
Return ==
    /\ pc = "restart"
    /\ restart >= args.niter
    /\ result' = [val_acc |-> mean(val_acc_list), test_acc |-> mean(test_acc_list),
                  test_acc_std |-> std(test_acc_list)]
    /\ pc' = "done"
    /\ UNCHANGED <<args, model, stop_checker, restart, epoch, evals, val_acc_list,
                   test_acc_list, hist, lastCheck, finals,
                   trains, evaluates, ran>>

Next ==
    \/ Construct
    \/ RunBegin
    \/ Restart
    \/ Train
    \/ Evaluate
    \/ Check
    \/ NoCheck
    \/ EpochsExhausted
    \/ FinalEvaluate
    \/ Return

Spec == Init /\ [][Next]_vars

\* run is one sequential thread: while it has a next statement it executes it
FairSpec == Spec /\ WF_vars(Next)

\* ---- vocabulary of the properties ----
SetMin(S) == CHOOSE x \in S : \A y \in S : x <= y
SetMax(S) == CHOOSE x \in S : \A y \in S : y <= x

Prefix(h, k) == SubSeq(h, 1, k)

\* the least val_loss among the entries of h (infinity if none)
MinLossSeen(h) == SetMin({Inf} \cup {h[i].val_loss : i \in 1..Len(h)})

\* the greatest of 0 and the val_acc entries of h
MaxAccSeen(h) == SetMax({0} \cup {h[i].val_acc : i \in 1..Len(h)})

\* a stop checker exists
HasChecker == stop_checker # None

DualMode == HasChecker /\ stop_checker.use_loss /\ stop_checker.use_acc
LossOnly == HasChecker /\ stop_checker.use_loss /\ ~stop_checker.use_acc
AccOnly == HasChecker /\ ~stop_checker.use_loss /\ stop_checker.use_acc

\* run is inside a restart (between its Trainer.reset and its final evaluate)
InRestart == pc \in {"epoch", "evaluate", "check", "final", "LoadError"}

\* C1: run makes niter restarts in sequence; each begins with one Trainer.reset
\* (fresh parameters and a reset stop checker before its first epoch) and ends with
\* one final evaluate whose val_acc and test_acc are appended once; when run
\* returns, both lists hold niter entries in restart order and the returned
\* statistics are aggregated over exactly those entries.
C1_RunRestarts ==
    /\ Len(val_acc_list) = Len(finals)
    /\ Len(test_acc_list) = Len(finals)
    /\ \A i \in 1..Len(finals) :
          /\ finals[i].it = i
          /\ val_acc_list[i] = finals[i].va
          /\ test_acc_list[i] = finals[i].ta
    /\ InRestart => Len(finals) = restart - 1
    /\ pc \in {"restart", "done"} => Len(finals) = restart
    /\ (pc = "epoch" /\ epoch = 0) =>
          /\ model \in Params(restart, 0)
          /\ args.early_stopping =>
                /\ stop_checker.counter = 0
                /\ stop_checker.state_dict = None
    /\ pc = "done" =>
          /\ restart = args.niter
          /\ Len(val_acc_list) = args.niter
          /\ Len(test_acc_list) = args.niter
          /\ LET n == args.niter
                 sv == Sum([i \in 1..n |-> finals[i].va])
                 st == Sum([i \in 1..n |-> finals[i].ta])
                 sq == SumSq([i \in 1..n |-> finals[i].ta])
             IN  result = [val_acc |-> <<sv, n>>, test_acc |-> <<st, n>>,
                           test_acc_std |-> <<n * sq - st * st, n * n>>]

\* C1 witness: run has returned after two restarts with different recorded
\* accuracies, the first of them stopped early
C1_Witness ==
    /\ pc = "done"
    /\ args.niter = 2
    /\ args.early_stopping
    /\ val_acc_list = <<1, 0>>
    /\ test_acc_list = <<0, 1>>
    /\ finals[1].ep < args.epochs

\* entry k of h is an improving call: at least as good as a best of the entries
\* before it on either metric in dual mode, strictly better than the best of the
\* entries before it on the enabled metric in single-criterion mode
Improving(h, k) ==
    LET before == Prefix(h, k - 1) IN
    IF args.use_loss /\ args.use_acc
    THEN \/ h[k].val_loss <= MinLossSeen(before)
         \/ h[k].val_acc >= MaxAccSeen(before)
    ELSE IF args.use_loss
    THEN h[k].val_loss < MinLossSeen(before)
    ELSE h[k].val_acc > MaxAccSeen(before)

\* the number of entries of h after its last improving one (all of them if none is)
Streak(h) ==
    LET imp == {k \in 1..Len(h) : Improving(h, k)} IN
    IF imp = {} THEN Len(h) ELSE Len(h) - SetMax(imp)

\* a check call of this restart has been made
Checked == HasChecker /\ lastCheck # "none"

\* C2: check returns True exactly when, after its update, counter >= patience,
\* counter being the number of consecutive check calls since the latest improving
\* one; so a restart breaks out of its epoch loop at the first epoch at which the
\* latest `patience` checks were all non-improving, never before epoch `patience`
\* (stated for patience >= 1).
C2_StopExactlyAtPatience ==
    (Checked /\ stop_checker.patience >= 1) =>
        /\ stop_checker.counter = Streak(hist)
        /\ (lastCheck = "True") <=> (stop_checker.counter >= stop_checker.patience)
        /\ (Streak(hist) >= stop_checker.patience) <=> (pc \in {"final", "restart", "done"})
        /\ lastCheck = "True" =>
              /\ Len(hist) = epoch
              /\ epoch >= stop_checker.patience
              /\ \A k \in 1..(Len(hist) - 1) :
                    Streak(Prefix(hist, k)) < stop_checker.patience

\* what of C2 holds of every check call that returns: the counter is the streak,
\* the returned value is counter >= patience, and a stop is the first such epoch
C2_WhenCheckReturns ==
    (Checked /\ lastCheck # "raise") =>
        /\ stop_checker.counter = Streak(hist)
        /\ (lastCheck = "True") <=> (stop_checker.counter >= stop_checker.patience)
        /\ lastCheck = "True" =>
              /\ Len(hist) = epoch
              /\ epoch >= stop_checker.patience
              /\ \A k \in 1..(Len(hist) - 1) :
                    Streak(Prefix(hist, k)) < stop_checker.patience

\* C3: every enabled criterion's tracked best is the best value passed to check
\* since construction or the last reset: best_val_loss the minimum of the val_loss
\* values (infinity if none), best_val_acc the maximum of 0 and the val_acc values.
C3_BestsAreBestSeen ==
    HasChecker =>
        /\ stop_checker.use_loss => stop_checker.best_val_loss = MinLossSeen(hist)
        /\ stop_checker.use_acc => stop_checker.best_val_acc = MaxAccSeen(hist)

\* C3 witness: dual mode with the two bests coming from different epochs
C3_Witness ==
    /\ DualMode
    /\ Len(hist) = 2
    /\ hist[1].val_loss > hist[2].val_loss
    /\ hist[1].val_acc > hist[2].val_acc
    /\ stop_checker.best_val_loss = hist[2].val_loss
    /\ stop_checker.best_val_acc = hist[1].val_acc

\* C4 witness: dual mode with save_model, the latest check saw an epoch at least as
\* good on the loss only: the counter is 0, best_val_loss is that epoch's loss and
\* the kept checkpoint is still the one of an earlier epoch
C4_Witness ==
    /\ DualMode
    /\ stop_checker.save_model
    /\ pc = "epoch"
    /\ lastCheck = "False"
    /\ Len(hist) >= 2
    /\ epoch = Len(hist)
    /\ LET k == Len(hist)
           before == Prefix(hist, k - 1)
       IN  /\ hist[k].val_loss <= MinLossSeen(before)
           /\ hist[k].val_acc < MaxAccSeen(before)
           /\ stop_checker.counter = 0
           /\ stop_checker.best_val_loss = hist[k].val_loss
           /\ stop_checker.state_dict # None
           /\ stop_checker.state_dict.params.ep < k

C4_DualStep ==
    (pc = "check" /\ DualMode) =>
        LET le == evals.val_loss <= stop_checker.best_val_loss
            ge == evals.val_acc >= stop_checker.best_val_acc
        IN  /\ (le \/ ge) => stop_checker'.counter = 0
            /\ ~(le \/ ge) => stop_checker'.counter = stop_checker.counter + 1
            /\ stop_checker.save_model =>
                  IF le /\ ge
                  THEN stop_checker'.state_dict = [kind |-> "copy", params |-> model]
                  ELSE stop_checker'.state_dict = stop_checker.state_dict
            /\ stop_checker'.best_val_loss =
                  IF le THEN evals.val_loss ELSE stop_checker.best_val_loss
            /\ stop_checker'.best_val_acc =
                  IF ge THEN evals.val_acc ELSE stop_checker.best_val_acc

\* C4: in dual mode a check call resets counter to 0 iff val_loss <= best_val_loss
\* or val_acc >= best_val_acc (bests as before the call) and otherwise adds exactly
\* 1; with save_model it replaces the kept checkpoint iff both hold; an epoch at
\* least as good on one metric only resets the counter and updates that best but
\* leaves the checkpoint unchanged.
C4_DualCounterAndCheckpoint == [][C4_DualStep]_vars

\* C5: EarlyStopping.reset restores counter = 0, best_val_loss = infinity,
\* best_val_acc = 0, state_dict = None and leaves patience and the flags as
\* constructed; as every restart begins with Trainer.reset, the counter, the bests
\* and the checkpoint of a restart stem from the checks of that restart only, and
\* the live model holds parameters of that restart only.
C5_RestartsIndependent ==
    /\ HasChecker =>
          /\ stop_checker.patience = args.patience
          /\ stop_checker.use_loss = args.use_loss
          /\ stop_checker.use_acc = args.use_acc
          /\ stop_checker.save_model = args.save_model
    /\ (HasChecker /\ pc = "epoch" /\ epoch = 0) =>
          /\ stop_checker.counter = 0
          /\ stop_checker.best_val_loss = Inf
          /\ stop_checker.best_val_acc = 0
          /\ stop_checker.state_dict = None
          /\ stop_checker = EarlyStopping(args.patience, args.use_loss, args.use_acc,
                                          args.save_model)
    /\ (HasChecker /\ InRestart) =>
          /\ Len(hist) <= epoch
          /\ stop_checker.counter <= Len(hist)
          /\ stop_checker.best_val_loss \in
                {Inf} \cup {hist[k].val_loss : k \in 1..Len(hist)}
          /\ stop_checker.best_val_acc \in
                {0} \cup {hist[k].val_acc : k \in 1..Len(hist)}
          /\ stop_checker.state_dict # None =>
                /\ stop_checker.state_dict.kind = "copy"
                /\ stop_checker.state_dict.params.it = restart
                /\ stop_checker.state_dict.params.ep \in 1..Len(hist)
    /\ InRestart => model.it = restart

\* C5 witness: the second restart has just been reset after a first restart that
\* was stopped early and restored its checkpoint
C5_Witness ==
    /\ HasChecker
    /\ stop_checker.save_model
    /\ stop_checker.patience = 1
    /\ args.epochs = 3
    /\ restart = 2
    /\ pc = "epoch"
    /\ epoch = 0
    /\ finals[1].ep = 1

\* C6: constructing a Trainer with early_stopping and neither use_loss nor use_acc
\* fails with an assertion error before any training, evaluation or state change,
\* so no stop checker exists with neither criterion enabled; without early_stopping
\* the Trainer is constructed with no stop checker whatever use_loss/use_acc are.
C6_AssertNeedsCriterion ==
    /\ pc # "new" =>
          ((pc = "AssertionError") <=>
              (args.early_stopping /\ ~args.use_loss /\ ~args.use_acc))
    /\ pc = "AssertionError" =>
          /\ stop_checker = None
          /\ model \in Params(0, 0)
          /\ restart = 0
          /\ epoch = 0
          /\ evals = None
          /\ hist = <<>>
          /\ val_acc_list = <<>>
          /\ test_acc_list = <<>>
          /\ result = None
    /\ HasChecker => (stop_checker.use_loss \/ stop_checker.use_acc)
    /\ (pc # "new" /\ ~args.early_stopping) => stop_checker = None

\* C6 witness: the construction has failed although restarts and epochs were asked for
C6_Witness ==
    /\ pc = "AssertionError"
    /\ args.niter > 0
    /\ args.epochs > 0

\* C7: whenever check signals stop with save_model enabled a checkpoint has been
\* kept, so load_state_dict is never handed None, in every mode, for every patience
\* and every sequence of validation metrics.
C7_StopHasCheckpoint ==
    /\ (Checked /\ stop_checker.save_model
          /\ stop_checker.counter >= stop_checker.patience) =>
             stop_checker.state_dict # None
    /\ pc # "LoadError"

SingleMode == LossOnly \/ AccOnly

\* the enabled metric of an evals record in single-criterion mode
Enabled(ev) == IF args.use_loss THEN ev.val_loss ELSE ev.val_acc

\* the tracked best of the enabled metric in single-criterion mode
TrackedBest ==
    IF args.use_loss THEN stop_checker.best_val_loss ELSE stop_checker.best_val_acc

\* a single-criterion check step with save_model: strict improvement resets the
\* counter and replaces the checkpoint, anything else (a tie too) adds 1 and keeps it
C8_Step ==
    (pc = "check" /\ SingleMode /\ stop_checker.save_model) =>
        LET strict == IF args.use_loss
                      THEN evals.val_loss < stop_checker.best_val_loss
                      ELSE evals.val_acc > stop_checker.best_val_acc
        IN  IF strict
            THEN /\ stop_checker'.counter = 0
                 /\ stop_checker'.state_dict = [kind |-> "copy", params |-> model]
            ELSE /\ stop_checker'.counter = stop_checker.counter + 1
                 /\ stop_checker'.state_dict = stop_checker.state_dict

\* a kept single-criterion checkpoint is the parameters trained in the earliest
\* epoch since reset whose enabled metric equals the tracked best
C8_Kept ==
    (SingleMode /\ stop_checker.save_model /\ stop_checker.state_dict # None) =>
        LET p == stop_checker.state_dict.params
            at == {k \in 1..Len(hist) : Enabled(hist[k]) = TrackedBest}
        IN  /\ at # {}
            /\ p.it = restart
            /\ p.ep = SetMin(at)
            /\ Enabled(evaluate(p)) = TrackedBest

\* C8: in single-criterion mode with save_model improvement is strict and the
\* checkpoint is replaced in exactly the check calls that reset counter; a kept
\* checkpoint is the model state of the earliest epoch since reset whose validation
\* metric equals the tracked best; a later tie adds to counter and keeps it.
C8_SingleCheckpoint == []C8_Kept /\ [][C8_Step]_vars

\* C8 witness: loss-only mode with save_model right after a check of an epoch that
\* tied the best: counter was incremented and the checkpoint is an earlier epoch's
C8_Witness ==
    /\ LossOnly
    /\ stop_checker.save_model
    /\ pc = "epoch"
    /\ Len(hist) >= 2
    /\ epoch = Len(hist)
    /\ hist[Len(hist)].val_loss = stop_checker.best_val_loss
    /\ stop_checker.counter >= 1
    /\ stop_checker.state_dict # None
    /\ stop_checker.state_dict.params.ep < epoch

\* all entries of h are equal
Constant(h) == \A i, j \in 1..Len(h) : h[i] = h[j]

\* C9: in dual mode a tie on either metric resets counter, so under validation
\* metrics constant from epoch to epoch dual-mode early stopping never fires for
\* patience >= 1 and the restart runs all epochs; in single-criterion mode the same
\* constant sequence adds to counter on every epoch after the first improvement and
\* stops the restart once `patience` such epochs have accumulated.
C9_TiesByMode ==
    /\ (DualMode /\ Checked) =>
          LET k == Len(hist)
              before == Prefix(hist, k - 1)
          IN  (\/ hist[k].val_loss = MinLossSeen(before)
               \/ hist[k].val_acc = MaxAccSeen(before)) => stop_checker.counter = 0
    /\ (DualMode /\ stop_checker.patience >= 1 /\ InRestart /\ Constant(hist)) =>
          /\ stop_checker.counter = 0
          /\ lastCheck \in {"none", "False"}
          /\ pc = "final" => (epoch = args.epochs /\ Len(hist) = args.epochs)
    /\ (SingleMode /\ InRestart /\ Constant(hist) /\ hist # <<>>
          /\ Improving(hist, 1)) =>
          /\ stop_checker.counter = Len(hist) - 1
          /\ (lastCheck = "True") <=> (Len(hist) - 1 >= stop_checker.patience)
          /\ lastCheck # "raise"
          /\ lastCheck = "True" => (pc = "final" /\ epoch = stop_checker.patience + 1)
          /\ (pc = "final" /\ lastCheck = "False") => epoch = args.epochs

\* C9 witness: a dual-mode restart with patience 1 has run all of three epochs
\* under constant validation metrics
C9_Witness ==
    /\ DualMode
    /\ stop_checker.patience = 1
    /\ pc = "final"
    /\ Len(hist) = 3
    /\ Constant(hist)
    /\ epoch = args.epochs

\* the parameters the final evaluate of a restart runs on
C10_Final(m) ==
    IF Checked /\ lastCheck = "True" /\ stop_checker.save_model
    THEN /\ stop_checker.state_dict # None
         /\ m = stop_checker.state_dict.params
    ELSE /\ m \in Params(restart, epoch)
         /\ lastCheck # "True" => epoch = args.epochs

C10_Places ==
    /\ pc \in {"epoch", "evaluate", "check"} => model \in Params(restart, epoch)
    /\ pc = "final" => C10_Final(model)
    /\ (pc = "restart" /\ restart >= 1) =>
          /\ C10_Final(finals[restart])
          /\ val_acc_list[restart] = evaluate(finals[restart]).val_acc
          /\ test_acc_list[restart] = evaluate(finals[restart]).test_acc

\* the live parameters change only by reset_parameters, by a train step, or inside
\* a check call that returns stop with save_model, which makes them the checkpoint
C10_Step ==
    model' # model =>
        \/ pc = "restart"
        \/ pc = "epoch"
        \/ /\ pc = "check"
           /\ HasChecker
           /\ stop_checker.save_model
           /\ lastCheck' = "True"
           /\ pc' = "final"
           /\ stop_checker'.state_dict # None
           /\ model' = stop_checker'.state_dict.params

\* C10: the model's parameters are replaced by the kept checkpoint only inside a
\* check call that returns stop with save_model enabled; a restart stopped early is
\* finally evaluated, and its val_acc/test_acc recorded, with the checkpoint's
\* parameters, a restart whose epoch loop exhausts `epochs` with the last epoch's
\* parameters even when save_model is enabled and a checkpoint is held.
C10_CheckpointRestoredOnlyOnStop == []C10_Places /\ [][C10_Step]_vars

\* C10 witness: with save_model, the first restart was stopped early and recorded
\* the parameters of epoch 1; the second ran out of epochs holding a checkpoint of
\* an earlier epoch and recorded the parameters of its last epoch
C10_Witness ==
    /\ HasChecker
    /\ stop_checker.save_model
    /\ args.epochs = 3
    /\ pc = "restart"
    /\ restart = 2
    /\ finals[1].ep = 1
    /\ lastCheck = "False"
    /\ stop_checker.state_dict # None
    /\ stop_checker.state_dict.params.ep < 3
    /\ finals[2].ep = 3

\* ---- replaying a metric sequence through check ----
\* the epoch the kept checkpoint was stored in (0: none kept)
CkptEpoch(self, m) ==
    IF self.state_dict = None THEN 0 ELSE Deref(self.state_dict, m).ep

\* the checker and the outcome after check has been called on entries 1..k of h,
\* from a checker constructed with save_model = save
RECURSIVE ReplayTo(_, _, _)
ReplayTo(h, k, save) ==
    IF k = 0
    THEN [self |-> EarlyStopping(args.patience, args.use_loss, args.use_acc, save),
          model |-> [it |-> restart, ep |-> 0, vl |-> 0, va |-> 0, ta |-> 0],
          outcome |-> "none"]
    ELSE LET prev == ReplayTo(h, k - 1, save)
             m == [it |-> restart, ep |-> k, vl |-> h[k].val_loss,
                   va |-> h[k].val_acc, ta |-> 0]
         IN  check(prev.self, h[k], m)

\* the sequences that agree with h on the enabled metric of single-criterion mode
\* and take any values on the disabled one
Agreeing(h) ==
    IF args.use_loss
    THEN {[k \in 1..Len(h) |-> [val_loss |-> h[k].val_loss, val_acc |-> d[k]]] :
             d \in [1..Len(h) -> ValAccs]}
    ELSE {[k \in 1..Len(h) |-> [val_loss |-> d[k], val_acc |-> h[k].val_acc]] :
             d \in [1..Len(h) -> ValLosses]}

\* C11: in single-criterion mode the disabled criterion is inert: in loss-only mode
\* best_val_acc stays 0, in acc-only mode best_val_loss stays infinity, and every
\* metric sequence that agrees with the one seen on the enabled metric gives the
\* same counter, checkpoint epoch and stop outcome at this epoch.
C11_DisabledInert ==
    (SingleMode /\ InRestart) =>
        /\ LossOnly => stop_checker.best_val_acc = 0
        /\ AccOnly => stop_checker.best_val_loss = Inf
        /\ \A g \in Agreeing(hist) :
              LET r == ReplayTo(g, Len(hist), stop_checker.save_model)
              IN  /\ r.self.counter = stop_checker.counter
                  /\ CkptEpoch(r.self, r.model) = CkptEpoch(stop_checker, model)
                  /\ r.outcome = lastCheck

\* C11 witness: loss-only mode after two checks; the second epoch had the better
\* val_acc and no better val_loss, and counter was incremented all the same
C11_Witness ==
    /\ LossOnly
    /\ stop_checker.save_model
    /\ pc = "epoch"
    /\ Len(hist) = 2
    /\ hist[2].val_acc > hist[1].val_acc
    /\ hist[2].val_loss >= hist[1].val_loss
    /\ stop_checker.counter = 1
    /\ stop_checker.best_val_acc = 0
    /\ CkptEpoch(stop_checker, model) = 1

\* run has ended: it returned, or __init__ or check raised
Terminated == pc \in {"done", "AssertionError", "LoadError"}

\* the steps one restart can take at most, and a bound on the steps run still has
\* to take from the current state
RestartSteps == 3 * args.epochs + 4
StepsLeft ==
    LET later == (args.niter - restart) * RestartSteps + 1
        epochsLeft == 3 * (args.epochs - epoch)
    IN  CASE pc = "new" -> args.niter * RestartSteps + 3
          [] pc = "run" -> args.niter * RestartSteps + 2
          [] pc = "restart" -> later
          [] pc = "epoch" -> later + epochsLeft + 3
          [] pc = "evaluate" -> later + epochsLeft + 5
          [] pc = "check" -> later + epochsLeft + 4
          [] pc = "final" -> later + 2
          [] OTHER -> 0

\* the check calls of this restart
Checks == Len(hist)

C12_Counts ==
    /\ StepsLeft >= 0
    /\ ~Terminated => ENABLED Next
    /\ trains <= args.epochs
    /\ pc \in {"epoch", "final", "LoadError"} =>
          /\ evaluates = trains
          /\ args.early_stopping => Checks = trains
    /\ pc = "evaluate" =>
          /\ evaluates = trains - 1
          /\ args.early_stopping => Checks = trains - 1
    /\ pc = "check" =>
          /\ evaluates = trains
          /\ args.early_stopping => Checks = trains - 1
    /\ Len(ran) = Len(finals)
    /\ \A i \in 1..Len(ran) :
          /\ ran[i][1] <= args.epochs
          /\ ran[i][2] = ran[i][1] + 1
    /\ (pc = "restart" /\ restart >= 1) => ran[restart] = <<trains, evaluates>>
    /\ Sum([i \in 1..Len(ran) |-> ran[i][1]]) + (IF InRestart THEN trains ELSE 0)
          <= args.niter * args.epochs

C13_NoEarlyStopping ==
    ~args.early_stopping =>
        /\ stop_checker = None
        /\ hist = <<>>
        /\ lastCheck = "none"
        /\ pc # "LoadError"
        /\ pc = "final" =>
              /\ epoch = args.epochs
              /\ trains = args.epochs
              /\ model \in Params(restart, args.epochs)
        /\ \A i \in 1..Len(finals) :
              /\ finals[i] \in Params(i, args.epochs)
              /\ ran[i] = <<args.epochs, args.epochs + 1>>
              /\ val_acc_list[i] = evaluate(finals[i]).val_acc
              /\ test_acc_list[i] = evaluate(finals[i]).test_acc

\* C13 witness: without early stopping, patience 0 and both criteria named, two
\* restarts of three epochs each have been finally evaluated
C13_Witness ==
    /\ ~args.early_stopping
    /\ args.patience = 0
    /\ args.use_loss
    /\ args.use_acc
    /\ args.epochs = 3
    /\ pc = "restart"
    /\ Len(finals) = 2
    /\ finals[1].va # finals[2].va

\* the test of line 59 held in the call with this outcome: check signalled stop
StopSignalled(outcome) == outcome \in {"True", "raise"}

Keeps == HasChecker /\ stop_checker.state_dict # None

\* the parameters read through the kept checkpoint
Kept == Deref(stop_checker.state_dict, model)

\* a kept checkpoint reads as the parameters trained in one epoch of this restart,
\* with the metrics check was given in that epoch
C15_Content ==
    Keeps =>
        /\ Kept.it = restart
        /\ Kept.ep \in 1..Len(hist)
        /\ evaluate(Kept).val_loss = hist[Kept.ep].val_loss
        /\ evaluate(Kept).val_acc = hist[Kept.ep].val_acc

\* what the checkpoint reads as changes only when a check call stores the
\* parameters the model has in that call, or when reset clears it; a checkpoint
\* appears only in a check call
C15_Step ==
    /\ Keeps =>
          \/ /\ Keeps'
             /\ Kept' = Kept
          \/ /\ pc = "check"
             /\ Keeps'
             /\ Kept' = model
          \/ /\ pc = "restart"
             /\ ~Keeps'
    /\ (~Keeps /\ Keeps') =>
          /\ pc = "check"
          /\ model \in Params(restart, epoch)
          /\ Kept' = model

\* C15: a kept checkpoint is an isolated snapshot of the parameters as they were
\* right after the training step of the epoch in which check stored it; later
\* train steps do not change it; it changes only when a later check replaces it or
\* reset clears it.
C15_CheckpointIsSnapshot == []C15_Content /\ [][C15_Step]_vars

\* C15 witness: a later train step has changed the live model and the checkpoint
\* still reads as the parameters of an earlier epoch, with other metrics
C15_Witness ==
    /\ Keeps
    /\ pc = "evaluate"
    /\ Kept.ep < epoch
    /\ evaluate(Kept) # evaluate(model)

C16_Range ==
    (HasChecker /\ stop_checker.patience >= 1) =>
        /\ 0 <= stop_checker.counter
        /\ stop_checker.counter <= stop_checker.patience
        /\ stop_checker.counter >= stop_checker.patience =>
              pc \notin {"epoch", "evaluate", "check"}

C16_Step ==
    (HasChecker /\ stop_checker.patience >= 1) =>
        \/ stop_checker'.counter = stop_checker.counter
        \/ /\ pc = "check"
           /\ stop_checker'.counter \in {0, stop_checker.counter + 1}
        \/ /\ pc = "restart"
           /\ stop_checker'.counter = 0

\* C16: for patience >= 1 the counter stays within 0..patience in every state of
\* run: a check only resets it to 0 or adds exactly 1, and once it has reached
\* patience no further check is made in the restart (the epoch loop is left and
\* the next restart resets it).
C16_CounterWithinPatience == []C16_Range /\ [][C16_Step]_vars

\* C16 witness: the counter has reached a patience of 2 and the epoch loop is left
C16_Witness ==
    /\ HasChecker
    /\ stop_checker.patience = 2
    /\ stop_checker.counter = 2
    /\ lastCheck = "True"
    /\ pc = "final"

====
